---- MODULE Spec2Model ----
(***************************************************************************)
(* Model of crates/sui-core/src/db_checkpoint_handler.rs: the background   *)
(* task of DBCheckpointHandler that finds the db checkpoint epochs missing *)
(* in the remote object store, uploads local checkpoints, and garbage      *)
(* collects local checkpoint directories.                                  *)
(***************************************************************************)
EXTENDS Integers, Sequences, FiniteSets, TLC

\* Epochs of the running handler range over 0..MaxEpoch (u32 in the source;
\* the model stays far below 2^32, so `candidate_epoch += 1` never wraps).
MaxEpoch == 1
\* Highest remote epoch of the remote stores gap detection is applied to on
\* its own (specification FindSpec).
MaxRemoteEpoch == 3
\* Number of faults a behaviour may contain: failing store operations,
\* interruptions of the process, markers removed by an operator.
MaxFailures == 2

Epochs == 0..MaxEpoch

\* The two epochs of test_range_missing_epochs: epoch_100 and epoch_200.
RangeEpochs == {100, 200}

SUCCESS_MARKER == "_SUCCESS"
TEST_MARKER == "_TEST"
UPLOAD_COMPLETED_MARKER == "_UPLOAD_COMPLETED"

\* The files of one db checkpoint directory (the directory tree the tests build).
Files == {"file1", "data/file3"}

\* The two marker lists the constructors configure.
ProdGcMarkers == {UPLOAD_COMPLETED_MARKER}
TestGcMarkers == {UPLOAD_COMPLETED_MARKER, TEST_MARKER}

VARIABLES
    local,          \* input_object_store: epoch -> [exists, markers]
    remote,         \* output_object_store: epoch -> [files, success]
    gc_markers,     \* DBCheckpointHandler.gc_markers
    prune_and_compact_before_upload,
    pc,             \* position of the background task
    missing_epochs, \* result of find_all_missing_checkpoint_epochs
    gauge,          \* metrics.first_missing_db_checkpoint_epoch
    dirs,           \* sorted local (or gc) index read at the start of a pass
    idx,            \* position in dirs
    stage,          \* step of the upload loop body for dirs[idx]
    copying,        \* files copy_recursively has copied so far in this call
    result,         \* "none", "ok" or "err": how the last pass returned
    deleted,        \* Vec deleted of the gc pass
    node_epoch,     \* next epoch the owning node will checkpoint
    failures,       \* failed operations so far
    get_errs,       \* epochs whose marker read returned Err(_) other than NotFound
    pass,           \* history of the current pass (what it pruned, copied, put)
    last_failure,   \* history: where the last failed upload pass stopped, and
                    \* the remote markers removed since the last upload pass
    settled,        \* history: a sync cycle has completed without a failure
                    \* and since then no db checkpoint was produced, no remote
                    \* object was removed and no step of a sync cycle failed
    cancelled,      \* recv is ready: () was sent on the Sender start() returned,
                    \* or the Sender was dropped
    recv_output,    \* what the ready recv resolves to: "Ok" for Ok(()),
                    \* "Err" for Err(RecvError); "none" while it is pending
    local_children, \* names of the other child directories of the local store
    remote_children \* names of the other child directories of the remote store

vars == <<local, remote, gc_markers, prune_and_compact_before_upload, pc,
          missing_epochs, gauge, dirs, idx, stage, copying, result, deleted,
          node_epoch, failures, get_errs, pass, last_failure, settled,
          cancelled, recv_output, local_children,
          remote_children>>

----------------------------------------------------------------------------
\* Helpers on sequences and sets

Last(s) == s[Len(s)]

Contains(s, x) == \E k \in 1..Len(s) : s[k] = x

Elems(s) == {s[k] : k \in 1..Len(s)}

MinOf(S) == CHOOSE x \in S : \A y \in S : x <= y

MaxOf(S) == CHOOSE x \in S : \A y \in S : x >= y

RECURSIVE DescendingSeq(_)
\* Mutant of SortedSeq: the highest epoch comes first
DescendingSeq(S) ==
    IF S = {} THEN <<>>
    ELSE LET m == MaxOf(S) IN <<m>> \o DescendingSeq(S \ {m})

RECURSIVE SortedSeq(_)
\* dirs.sort_by_key(|(epoch_num, _path)| *epoch_num)
SortedSeq(S) ==
    IF S = {} THEN <<>>
    ELSE LET m == MinOf(S) IN <<m>> \o SortedSeq(S \ {m})

NoDir == [exists |-> FALSE, markers |-> {}]
NoRemoteDir == [files |-> {}, success |-> FALSE]

\* read_checkpoint_dir on the local store: the epochs with an epoch_<n> prefix
LocalIndex == {e \in DOMAIN local : local[e].exists}

\* read_checkpoint_dir on the remote store: a prefix exists as soon as one
\* object lies under it
RemoteIndex == {e \in DOMAIN remote : remote[e].files # {} \/ remote[e].success}

EmptyPass == [pruned |-> {}, copied |-> {}, put_success |-> {},
              put_upload_completed |-> {}]

CanFail == failures < MaxFailures

----------------------------------------------------------------------------
\* read_checkpoint_dir: directory names are sequences of characters

DigitChars == <<"0", "1", "2", "3", "4", "5", "6", "7", "8", "9">>

IsDigit(c) == \E d \in 1..10 : DigitChars[d] = c

DigitValue(c) == (CHOOSE d \in 1..10 : DigitChars[d] = c) - 1

\* the digits of u32::MAX, 4294967295
U32MaxDigits == <<"4", "2", "9", "4", "9", "6", "7", "2", "9", "5">>

RECURSIVE StripZeros(_)
StripZeros(s) ==
    IF Len(s) > 1 /\ s[1] = "0" THEN StripZeros(Tail(s)) ELSE s

\* the number written by the digits s is above u32::MAX (checked_mul or
\* checked_add fails in from_str_radix)
Overflows(s) ==
    LET t == StripZeros(s)
    IN \/ Len(t) > Len(U32MaxDigits)
       \/ /\ Len(t) = Len(U32MaxDigits)
          /\ \E i \in 1..Len(t) :
                /\ DigitValue(t[i]) > DigitValue(U32MaxDigits[i])
                /\ \A j \in 1..(i - 1) : t[j] = U32MaxDigits[j]

ParseErr == [ok |-> FALSE, value |-> 0]

RECURSIVE DigitsValue(_, _, _)
\* result = result * 10 + digit, from the first digit on
DigitsValue(s, k, acc) ==
    IF k > Len(s) THEN acc
    ELSE DigitsValue(s, k + 1, acc * 10 + DigitValue(s[k]))

\* a character that is no digit, or a value above u32::MAX, is an error
ParseDigits(s) ==
    IF \E k \in 1..Len(s) : ~IsDigit(s[k]) THEN ParseErr
    ELSE IF Overflows(s) THEN ParseErr
    ELSE [ok |-> TRUE, value |-> DigitsValue(s, 1, 0)]

\* epoch.parse::<u32>(): an optional leading "+", then at least one digit
ParseU32(s) ==
    LET digits == IF Len(s) >= 1 /\ s[1] = "+" THEN SubSeq(s, 2, Len(s)) ELSE s
    IN IF Len(digits) = 0 THEN ParseErr ELSE ParseDigits(digits)

\* filename.starts_with(prefix)
StartsWith(name, prefix) ==
    Len(name) >= Len(prefix) /\ SubSeq(name, 1, Len(prefix)) = prefix

\* filename.split_once('_'): the part after the first '_'
AfterFirstUnderscore(name) ==
    LET k == CHOOSE i \in 1..Len(name) :
                 name[i] = "_" /\ \A j \in 1..(i - 1) : name[j] # "_"
    IN SubSeq(name, k + 1, Len(name))

EpochPrefix == <<"e", "p", "o", "c", "h", "_">>

RECURSIVE ToDigits(_)
\* the decimal digits of an epoch number
ToDigits(n) ==
    IF n < 10 THEN <<DigitChars[n + 1]>>
    ELSE ToDigits(n \div 10) \o <<DigitChars[(n % 10) + 1]>>

\* the name of the directory the node writes for an epoch: epoch_<n>
EpochDirName(e) == EpochPrefix \o ToDigits(e)

\* Mutant of ParseChild: a suffix that does not parse is passed over
ParseChildSkipsMalformed(name) ==
    IF ~StartsWith(name, EpochPrefix) THEN [skip |-> TRUE, ok |-> TRUE, value |-> 0]
    ELSE LET r == ParseU32(AfterFirstUnderscore(name))
         IN [skip |-> ~r.ok, ok |-> TRUE, value |-> r.value]

\* the body of the for loop for one child: continue, an error, or an epoch
ParseChild(name) ==
    IF ~StartsWith(name, EpochPrefix) THEN [skip |-> TRUE, ok |-> TRUE, value |-> 0]
    ELSE LET r == ParseU32(AfterFirstUnderscore(name))
         IN [skip |-> FALSE, ok |-> r.ok, value |-> r.value]

\* The names of child directories that are no directory of an epoch of the
\* model: tmp, epochs_1, epoch, epoch_x, epoch_, epoch_1_2, epoch_-1
OtherNames ==
    {<<"t", "m", "p">>,
     <<"e", "p", "o", "c", "h", "s", "_", "1">>,
     <<"e", "p", "o", "c", "h">>,
     EpochPrefix \o <<"x">>,
     EpochPrefix,
     EpochPrefix \o <<"1", "_", "2">>,
     EpochPrefix \o <<"-", "1">>}

\* every epoch of a store of the model
AllEpochs ==
    (0..(IF MaxEpoch > MaxRemoteEpoch THEN MaxEpoch ELSE MaxRemoteEpoch))
        \cup RangeEpochs

\* the loop body applied to the directory the node writes for each epoch
ParsedEpochDir == [e \in AllEpochs |-> ParseChild(EpochDirName(e))]

\* the loop body applied to each of the other names
ParsedOther == [n \in OtherNames |-> ParseChild(n)]

\* read_checkpoint_dir over the child directories of a store: the epoch
\* directories present and the other children; an error of one child is the
\* error of the call, a child that is passed over adds nothing
ReadCheckpointDir(present, children) ==
    [ok |-> /\ \A e \in present : ParsedEpochDir[e].ok
            /\ \A n \in children : ParsedOther[n].ok,
     index |-> {ParsedEpochDir[e].value :
                    e \in {d \in present : ~ParsedEpochDir[d].skip}}
               \cup {ParsedOther[n].value :
                    n \in {m \in children : ~ParsedOther[m].skip}}]

ReadLocal == ReadCheckpointDir(LocalIndex, local_children)

ReadRemote == ReadCheckpointDir(RemoteIndex, remote_children)

\* A list call or a read of the index fails: on a child that does not
\* parse every time, on a transient store error within the fault bound
ListFails(read) ==
    IF read.ok THEN CanFail /\ failures' = failures + 1
    ELSE failures' = failures

----------------------------------------------------------------------------
\* find_all_missing_checkpoint_epochs

\* self.output_object_store.get(&success_marker): errs are the epochs whose
\* read fails with an error other than NotFound
GetResult(epoch_num, errs) ==
    IF epoch_num \in errs THEN "Err"
    ELSE IF remote[epoch_num].success THEN "Ok" ELSE "NotFound"

\* Mutant of MatchGetResult: any failed read marks the epoch missing
MatchGetResultAnyErr(missing, epoch_num, get_result) ==
    IF get_result # "Ok" THEN Append(missing, epoch_num) ELSE missing

\* match get_result { Err(NotFound) => push, Err(_) => warn, Ok(_) => {} }
MatchGetResult(missing, epoch_num, get_result) ==
    IF get_result = "NotFound" THEN Append(missing, epoch_num) ELSE missing

\* Mutant of WhileCandidate: the counter skips to the epoch without
\* reporting the absent directories
WhileCandidateSkips(candidate_epoch, epoch_num, missing) ==
    [candidate_epoch |-> IF candidate_epoch < epoch_num THEN epoch_num
                         ELSE candidate_epoch,
     missing |-> missing]

\* while candidate_epoch < *epoch_num { push(candidate_epoch); candidate_epoch += 1 }
\* The loop runs epoch_num - candidate_epoch times (not at all when the
\* counter is not below epoch_num); its i-th turn pushes
\* candidate_epoch + i - 1, and it leaves the counter at epoch_num.
WhileCandidate(candidate_epoch, epoch_num, missing) ==
    IF candidate_epoch < epoch_num
    THEN [candidate_epoch |-> epoch_num,
          missing |-> missing \o [i \in 1..(epoch_num - candidate_epoch) |->
                                      candidate_epoch + i - 1]]
    ELSE [candidate_epoch |-> candidate_epoch, missing |-> missing]

RECURSIVE ForDirs(_, _, _, _, _)
\* for (epoch_num, path) in dirs { ... candidate_epoch += 1 }
ForDirs(ds, k, candidate_epoch, missing, res) ==
    IF k > Len(ds) THEN Append(missing, candidate_epoch)
    ELSE LET w == WhileCandidate(candidate_epoch, ds[k], missing)
             m == MatchGetResult(w.missing, ds[k], res[ds[k]])
         IN ForDirs(ds, k + 1, w.candidate_epoch + 1, m, res)

\* Mutant of FindAllMissingCheckpointEpochs: the final push of the counter
\* is left out
FindAllMissingNoSentinel(index, res) ==
    LET m == ForDirs(SortedSeq(index), 1, 0, <<>>, res)
    IN SubSeq(m, 1, Len(m) - 1)

\* index: the remote epochs; res: the result of each marker read
FindAllMissingCheckpointEpochs(index, res) ==
    ForDirs(SortedSeq(index), 1, 0, <<>>, res)

\* Mutant of FirstOrZero: a list that holds nothing but its last element
\* (no epoch pending) gives 0
FirstOrZeroIfNonePending(epochs) == IF Len(epochs) <= 1 THEN 0 ELSE epochs[1]

\* epochs.first().cloned().map(|x| x as i64).unwrap_or(0)
FirstOrZero(epochs) == IF Len(epochs) = 0 THEN 0 ELSE epochs[1]

----------------------------------------------------------------------------
\* upload_db_checkpoints_to_object_store

\* missing_epochs.last().cloned().unwrap_or(0)
LastMissingEpoch(missing) == IF Len(missing) = 0 THEN 0 ELSE Last(missing)

\* Mutant of Selected: only the epochs at or above the boundary are uploaded
SelectedOnlyBeyond(missing, epoch) == epoch >= LastMissingEpoch(missing)

\* Mutant of Selected: only the listed epochs are uploaded
SelectedOnlyListed(missing, epoch) == Contains(missing, epoch)

\* Mutant of Selected: every local epoch is uploaded in every pass
SelectedAlways(missing, epoch) == TRUE

\* if missing_epochs.contains(epoch) || *epoch >= last_missing_epoch
Selected(missing, epoch) ==
    Contains(missing, epoch) \/ epoch >= LastMissingEpoch(missing)

\* Mutant of FirstStage: the remote marker is written before anything is copied
FirstStageMarksFirst(missing, epoch, prune) ==
    IF Selected(missing, epoch) THEN "put_success" ELSE "put_upload_completed"

\* the first step of the loop body for an epoch
FirstStage(missing, epoch, prune) ==
    IF Selected(missing, epoch)
    THEN IF prune THEN "prune" ELSE "copy"
    ELSE "put_upload_completed"

\* Mutant of StageAfterCopy: the local marker is written and the remote one is not
StageAfterCopySkipsSuccess == "put_upload_completed"

\* the step after copy_recursively(...).await? returned Ok
StageAfterCopy == "put_success"

\* the step after put(&success_marker, ...).await? returned Ok
StageAfterPutSuccess == "put_upload_completed"

NoFailure == [epoch |-> -1, stage |-> "none", retry |-> {}, removed |-> {}]

----------------------------------------------------------------------------
\* State after DBCheckpointHandler::new / new_for_test and start(): both
\* stores empty, the task waiting in select!.

Init ==
    /\ local = [e \in Epochs |-> NoDir]
    /\ remote = [e \in Epochs |-> NoRemoteDir]
    /\ gc_markers \in {ProdGcMarkers, TestGcMarkers}
    /\ prune_and_compact_before_upload \in BOOLEAN
    /\ pc = "idle"
    /\ missing_epochs = <<>>
    /\ gauge = 0
    /\ dirs = <<>>
    /\ idx = 0
    /\ stage = "none"
    /\ copying = {}
    /\ result = "none"
    /\ deleted = <<>>
    /\ node_epoch = 0
    /\ failures = 0
    /\ get_errs = {}
    /\ pass = EmptyPass
    /\ last_failure = NoFailure
    /\ settled = FALSE
    /\ cancelled = FALSE
    /\ recv_output = "none"
    /\ local_children = {}
    /\ remote_children = {}

\* Frames
StoresUnchanged == UNCHANGED <<local, remote>>
ConfigUnchanged == UNCHANGED <<gc_markers, prune_and_compact_before_upload>>
ChildrenUnchanged == UNCHANGED <<local_children, remote_children>>
DetectUnchanged == UNCHANGED <<missing_epochs, gauge, get_errs>>

----------------------------------------------------------------------------
\* The environment: the node writes db checkpoints, a test drops _TEST

\* a new local db checkpoint directory epoch_<e> appears. A directory that
\* appears during a pass is not in the index the pass has read and no step of
\* the pass reads it, so it is the same as one appearing once the pass is
\* over: the directory appears while no pass holds an index.
ProduceCheckpoint(e) ==
    /\ pc \in {"idle", "detected"}
    /\ e >= node_epoch
    /\ local' = [local EXCEPT ![e] = [exists |-> TRUE, markers |-> {}]]
    /\ node_epoch' = e + 1
    /\ UNCHANGED <<remote, pc, dirs, idx, stage, copying, result, deleted,
                   failures, pass, last_failure>>
    /\ ConfigUnchanged /\ ChildrenUnchanged /\ DetectUnchanged
    /\ settled' = FALSE
    /\ UNCHANGED <<cancelled, recv_output>>

\* fs::write(local_epoch_checkpoint.join(TEST_MARKER), ..): the tests drop
\* the extra gc marker of a handler built by new_for_test; only the gc pass
\* reads it, so it is dropped between passes or during a gc pass
DropTestMarker(e) ==
    /\ TEST_MARKER \in gc_markers
    /\ pc \in {"idle", "gc"}
    /\ local[e].exists
    /\ TEST_MARKER \notin local[e].markers
    /\ local' = [local EXCEPT ![e].markers = @ \cup {TEST_MARKER}]
    /\ UNCHANGED <<remote, pc, dirs, idx, stage, copying, result, deleted,
                   node_epoch, failures, pass, last_failure>>
    /\ ConfigUnchanged /\ ChildrenUnchanged /\ DetectUnchanged
    /\ UNCHANGED <<settled, cancelled, recv_output>>

----------------------------------------------------------------------------
\* The sync tick: _now = interval.tick() => { find ...; set gauge; upload ... }

\* find_all_missing_checkpoint_epochs returned Ok(epochs); the gauge is set
SyncTick ==
    /\ pc = "idle"
    /\ ReadRemote.ok
    /\ \E errs \in SUBSET ReadRemote.index :
        /\ failures + Cardinality(errs) <= MaxFailures
        /\ LET res == [e \in ReadRemote.index |-> GetResult(e, errs)]
               epochs == FindAllMissingCheckpointEpochs(ReadRemote.index, res)
           IN /\ missing_epochs' = epochs
              /\ gauge' = FirstOrZero(epochs)
        /\ get_errs' = errs
        /\ failures' = failures + Cardinality(errs)
        /\ settled' = (settled /\ errs = {})
    /\ UNCHANGED <<cancelled, recv_output>>
    /\ pc' = "detected"
    /\ result' = "none"
    /\ pass' = EmptyPass
    /\ UNCHANGED <<dirs, idx, stage, copying, deleted, node_epoch, last_failure>>
    /\ StoresUnchanged /\ ConfigUnchanged /\ ChildrenUnchanged

\* read_checkpoint_dir(output_object_store) failed: "Failed to find missing
\* db checkpoints", no upload in this tick
SyncTickListFails ==
    /\ pc = "idle"
    /\ ListFails(ReadRemote)
    /\ UNCHANGED <<pc, dirs, idx, stage, copying, result, deleted, node_epoch,
                   pass, last_failure>>
    /\ StoresUnchanged /\ ConfigUnchanged /\ ChildrenUnchanged /\ DetectUnchanged
    /\ settled' = FALSE
    /\ UNCHANGED <<cancelled, recv_output>>

\* the loop moves to dirs[k], or returns Ok(()) after the last entry
EnterEpoch(ds, k) ==
    /\ idx' = k
    /\ copying' = {}
    /\ IF k > Len(ds)
       THEN /\ pc' = "upload_returned"
            /\ stage' = "none"
            /\ result' = "ok"
       ELSE /\ pc' = "uploading"
            /\ stage' = FirstStage(missing_epochs, ds[k], prune_and_compact_before_upload)
            /\ result' = "none"

\* Mutant of UploadFails: the error ends the background task
UploadFailsEndsTask ==
    /\ CanFail
    /\ failures' = failures + 1
    /\ pc' = "exited"
    /\ result' = "err"
    /\ UNCHANGED <<dirs, idx, stage, copying, deleted, node_epoch, pass,
                   last_failure, settled, cancelled, recv_output>>
    /\ ConfigUnchanged /\ ChildrenUnchanged /\ DetectUnchanged

\* an awaited call of the pass returned Err: `?` propagates it
UploadFails ==
    /\ CanFail
    /\ failures' = failures + 1
    /\ pc' = "upload_returned"
    /\ result' = "err"
    /\ last_failure' =
         [epoch |-> dirs[idx], stage |-> stage,
          retry |-> {dirs[k] : k \in {j \in idx..Len(dirs) :
                                        Selected(missing_epochs, dirs[j])}},
          removed |-> last_failure.removed]
    /\ UNCHANGED <<dirs, idx, stage, copying, deleted, node_epoch, pass>>
    /\ ConfigUnchanged /\ ChildrenUnchanged /\ DetectUnchanged
    /\ settled' = FALSE
    /\ UNCHANGED <<cancelled, recv_output>>

\* let local_checkpoints_by_epoch = read_checkpoint_dir(input_object_store)?
UploadStart ==
    /\ pc = "detected"
    /\ ReadLocal.ok
    /\ dirs' = SortedSeq(ReadLocal.index)
    /\ EnterEpoch(SortedSeq(ReadLocal.index), 1)
    /\ last_failure' = [NoFailure EXCEPT !.removed = last_failure.removed]
    /\ UNCHANGED <<deleted, node_epoch, failures, pass>>
    /\ StoresUnchanged /\ ConfigUnchanged /\ ChildrenUnchanged /\ DetectUnchanged
    /\ UNCHANGED <<settled, cancelled, recv_output>>

UploadStartListFails ==
    /\ pc = "detected"
    /\ ListFails(ReadLocal)
    /\ pc' = "upload_returned"
    /\ result' = "err"
    /\ UNCHANGED <<dirs, idx, stage, copying, deleted, node_epoch, pass,
                   last_failure>>
    /\ StoresUnchanged /\ ConfigUnchanged /\ ChildrenUnchanged /\ DetectUnchanged
    /\ settled' = FALSE
    /\ UNCHANGED <<cancelled, recv_output>>

\* self.prune_and_compact(local_db_path, *epoch).await?
PruneAndCompact ==
    /\ pc = "uploading" /\ stage = "prune"
    /\ stage' = "copy"
    /\ pass' = [pass EXCEPT !.pruned = @ \cup {dirs[idx]}]
    /\ UNCHANGED <<pc, dirs, idx, copying, result, deleted, node_epoch,
                   failures, last_failure>>
    /\ StoresUnchanged /\ ConfigUnchanged /\ ChildrenUnchanged /\ DetectUnchanged
    /\ UNCHANGED <<settled, cancelled, recv_output>>

PruneAndCompactFails ==
    /\ pc = "uploading" /\ stage = "prune"
    /\ UploadFails
    /\ StoresUnchanged

\* copy_recursively: one more file of the directory reaches the remote
\* store; the files complete in any order (concurrency 20); the call
\* returns Ok once every file is copied
CopyFile(f) ==
    /\ pc = "uploading" /\ stage = "copy"
    /\ f \in Files \ copying
    /\ remote' = [remote EXCEPT ![dirs[idx]].files = @ \cup {f}]
    /\ IF copying \cup {f} = Files
       THEN /\ stage' = StageAfterCopy
            /\ copying' = {}
            /\ pass' = [pass EXCEPT !.copied = @ \cup {dirs[idx]}]
       ELSE /\ copying' = copying \cup {f}
            /\ UNCHANGED <<stage, pass>>
    /\ UNCHANGED <<local, pc, dirs, idx, result, deleted, node_epoch,
                   failures, last_failure>>
    /\ ConfigUnchanged /\ ChildrenUnchanged /\ DetectUnchanged
    /\ UNCHANGED <<settled, cancelled, recv_output>>

\* one file copy failed: copy_recursively(...).await? returns Err; the files
\* already copied stay in the remote store
CopyFails ==
    /\ pc = "uploading" /\ stage = "copy"
    /\ UploadFails
    /\ StoresUnchanged

\* put(&success_marker, bytes, output_object_store).await?
PutSuccessMarker ==
    /\ pc = "uploading" /\ stage = "put_success"
    /\ remote' = [remote EXCEPT ![dirs[idx]].success = TRUE]
    /\ stage' = StageAfterPutSuccess
    /\ pass' = [pass EXCEPT !.put_success = @ \cup {dirs[idx]}]
    /\ UNCHANGED <<local, pc, dirs, idx, copying, result, deleted, node_epoch,
                   failures, last_failure>>
    /\ ConfigUnchanged /\ ChildrenUnchanged /\ DetectUnchanged
    /\ UNCHANGED <<settled, cancelled, recv_output>>

PutSuccessMarkerFails ==
    /\ pc = "uploading" /\ stage = "put_success"
    /\ UploadFails
    /\ StoresUnchanged

\* put(&upload_completed_marker, bytes, input_object_store).await?
PutUploadCompletedMarker ==
    /\ pc = "uploading" /\ stage = "put_upload_completed"
    /\ local' = [local EXCEPT ![dirs[idx]].markers = @ \cup {UPLOAD_COMPLETED_MARKER}]
    /\ pass' = [pass EXCEPT !.put_upload_completed = @ \cup {dirs[idx]}]
    /\ EnterEpoch(dirs, idx + 1)
    /\ UNCHANGED <<remote, dirs, deleted, node_epoch, failures, last_failure>>
    /\ ConfigUnchanged /\ ChildrenUnchanged /\ DetectUnchanged
    /\ UNCHANGED <<settled, cancelled, recv_output>>

PutUploadCompletedMarkerFails ==
    /\ pc = "uploading" /\ stage = "put_upload_completed"
    /\ UploadFails
    /\ StoresUnchanged

\* the select! arm ends (an Err is logged); the task waits for the next tick
UploadReturns ==
    /\ pc = "upload_returned"
    /\ pc' = "idle"
    /\ dirs' = <<>>
    /\ idx' = 0
    /\ stage' = "none"
    /\ copying' = {}
    /\ pass' = EmptyPass
    /\ get_errs' = {}
    /\ missing_epochs' = <<>>
    /\ result' = "none"
    /\ last_failure' = [last_failure EXCEPT !.removed = {}]
    /\ UNCHANGED <<gauge, deleted, node_epoch, failures>>
    /\ StoresUnchanged /\ ConfigUnchanged /\ ChildrenUnchanged
    /\ settled' = (result = "ok" /\ get_errs = {})
    /\ UNCHANGED <<cancelled, recv_output>>

----------------------------------------------------------------------------
\* The gc tick: _ = gc_interval.tick() => garbage_collect_old_db_checkpoints

\* Mutant of AllMarkersPresent: only _UPLOAD_COMPLETED is looked for
OnlyUploadCompletedPresent(markers, epoch) ==
    UPLOAD_COMPLETED_MARKER \in local[epoch].markers

\* try_join_all(marker_paths.iter().map(|path| input_object_store.get(path)))
\* is Ok when every configured marker is in the directory (and is read)
AllMarkersPresent(markers, epoch) == markers \subseteq local[epoch].markers

\* the pass moves to the k-th entry of the index, or returns Ok(deleted)
GcEnter(ds, k) ==
    /\ idx' = k
    /\ IF k > Len(ds)
       THEN pc' = "gc_returned" /\ result' = "ok"
       ELSE pc' = "gc" /\ result' = "none"

\* Mutant of GcTick: the gc tick is also taken while an upload pass runs
GcTickDuringUpload ==
    /\ pc \in {"idle", "uploading"}
    /\ ReadLocal.ok
    /\ dirs' = SortedSeq(ReadLocal.index)
    /\ deleted' = <<>>
    /\ GcEnter(SortedSeq(ReadLocal.index), 1)
    /\ UNCHANGED <<stage, copying, node_epoch, failures, pass, last_failure>>
    /\ StoresUnchanged /\ ConfigUnchanged /\ ChildrenUnchanged /\ DetectUnchanged
    /\ UNCHANGED <<settled, cancelled, recv_output>>

\* let local_checkpoints_by_epoch = read_checkpoint_dir(input_object_store)?
GcTick ==
    /\ pc = "idle"
    /\ ReadLocal.ok
    /\ dirs' = SortedSeq(ReadLocal.index)
    /\ deleted' = <<>>
    /\ GcEnter(SortedSeq(ReadLocal.index), 1)
    /\ UNCHANGED <<stage, copying, node_epoch, failures, pass, last_failure>>
    /\ StoresUnchanged /\ ConfigUnchanged /\ ChildrenUnchanged /\ DetectUnchanged
    /\ UNCHANGED <<settled, cancelled, recv_output>>

GcTickListFails ==
    /\ pc = "idle"
    /\ ListFails(ReadLocal)
    /\ pc' = "gc_returned"
    /\ result' = "err"
    /\ deleted' = <<>>
    /\ UNCHANGED <<dirs, idx, stage, copying, node_epoch, pass, last_failure>>
    /\ StoresUnchanged /\ ConfigUnchanged /\ ChildrenUnchanged /\ DetectUnchanged
    /\ UNCHANGED <<settled, cancelled, recv_output>>

\* Mutant of GcDelete: the remote copy of the epoch is removed with the
\* local directory
GcDeleteAlsoRemote ==
    /\ pc = "gc"
    /\ AllMarkersPresent(gc_markers, dirs[idx])
    /\ deleted' = Append(deleted, dirs[idx])
    /\ local' = [local EXCEPT ![dirs[idx]] = NoDir]
    /\ remote' = [remote EXCEPT ![dirs[idx]] = NoRemoteDir]
    /\ GcEnter(dirs, idx + 1)
    /\ UNCHANGED <<dirs, stage, copying, node_epoch, failures, pass,
                   last_failure>>
    /\ ConfigUnchanged /\ ChildrenUnchanged /\ DetectUnchanged
    /\ UNCHANGED <<settled, cancelled, recv_output>>

\* Ok(_) => { deleted.push(*epoch); fs::remove_dir_all(&local_fs_path)?; }
GcDelete ==
    /\ pc = "gc"
    /\ AllMarkersPresent(gc_markers, dirs[idx])
    /\ deleted' = Append(deleted, dirs[idx])
    /\ local' = [local EXCEPT ![dirs[idx]] = NoDir]
    /\ GcEnter(dirs, idx + 1)
    /\ UNCHANGED <<remote, dirs, stage, copying, node_epoch, failures, pass,
                   last_failure>>
    /\ ConfigUnchanged /\ ChildrenUnchanged /\ DetectUnchanged
    /\ UNCHANGED <<settled, cancelled, recv_output>>

\* Mutant of GcDeleteFails: the failed removal is skipped over and the pass
\* goes on with the next directory
GcDeleteFailsContinues ==
    /\ pc = "gc"
    /\ AllMarkersPresent(gc_markers, dirs[idx])
    /\ CanFail
    /\ failures' = failures + 1
    /\ deleted' = Append(deleted, dirs[idx])
    /\ GcEnter(dirs, idx + 1)
    /\ UNCHANGED <<local, remote, dirs, stage, copying, node_epoch, pass,
                   last_failure, settled, cancelled, recv_output>>
    /\ ConfigUnchanged /\ ChildrenUnchanged /\ DetectUnchanged

\* path_to_filesystem or fs::remove_dir_all fails: the error propagates;
\* remove_dir_all may have removed part of the tree before it failed
GcDeleteFails ==
    /\ pc = "gc"
    /\ AllMarkersPresent(gc_markers, dirs[idx])
    /\ CanFail
    /\ failures' = failures + 1
    /\ deleted' = Append(deleted, dirs[idx])
    /\ \E ms \in SUBSET local[dirs[idx]].markers :
          local' = [local EXCEPT ![dirs[idx]].markers = ms]
    /\ pc' = "gc_returned"
    /\ result' = "err"
    /\ UNCHANGED <<remote, dirs, idx, stage, copying, node_epoch, pass, last_failure>>
    /\ ConfigUnchanged /\ ChildrenUnchanged /\ DetectUnchanged
    /\ UNCHANGED <<settled, cancelled, recv_output>>

\* Err(_) => debug!("Not ready for deletion yet"): a marker is absent
GcNotReady ==
    /\ pc = "gc"
    /\ ~AllMarkersPresent(gc_markers, dirs[idx])
    /\ GcEnter(dirs, idx + 1)
    /\ UNCHANGED <<dirs, stage, copying, deleted, node_epoch, failures, pass,
                   last_failure>>
    /\ StoresUnchanged /\ ConfigUnchanged /\ ChildrenUnchanged /\ DetectUnchanged
    /\ UNCHANGED <<settled, cancelled, recv_output>>

\* Err(_): every marker is there but a read of one fails
GcMarkerReadFails ==
    /\ pc = "gc"
    /\ AllMarkersPresent(gc_markers, dirs[idx])
    /\ CanFail
    /\ failures' = failures + 1
    /\ GcEnter(dirs, idx + 1)
    /\ UNCHANGED <<dirs, stage, copying, deleted, node_epoch, pass, last_failure>>
    /\ StoresUnchanged /\ ConfigUnchanged /\ ChildrenUnchanged /\ DetectUnchanged
    /\ UNCHANGED <<settled, cancelled, recv_output>>

\* the select! arm ends; the task waits for the next tick
GcReturns ==
    /\ pc = "gc_returned"
    /\ pc' = "idle"
    /\ dirs' = <<>>
    /\ idx' = 0
    /\ deleted' = <<>>
    /\ result' = "none"
    /\ UNCHANGED <<stage, copying, node_epoch, failures, pass, last_failure>>
    /\ StoresUnchanged /\ ConfigUnchanged /\ ChildrenUnchanged /\ DetectUnchanged
    /\ UNCHANGED <<settled, cancelled, recv_output>>

\* The process stops in the middle of a pass ("uploads stops mid way because
\* system stopped") and a new handler is started on the same stores. A
\* handler started after a cancelled one behaves as one that was never
\* cancelled, so a cancelled task is followed to its exit.
Interrupted ==
    /\ pc \in {"detected", "uploading", "gc"}
    /\ ~cancelled
    /\ CanFail
    /\ failures' = failures + 1
    /\ pc' = "idle"
    /\ dirs' = <<>>
    /\ idx' = 0
    /\ stage' = "none"
    /\ copying' = {}
    /\ deleted' = <<>>
    /\ result' = "none"
    /\ missing_epochs' = <<>>
    /\ get_errs' = {}
    /\ pass' = EmptyPass
    /\ last_failure' = [NoFailure EXCEPT !.removed = last_failure.removed]
    /\ UNCHANGED <<gauge, node_epoch>>
    /\ StoresUnchanged /\ ConfigUnchanged /\ ChildrenUnchanged
    /\ settled' = FALSE
    /\ UNCHANGED <<cancelled, recv_output>>

----------------------------------------------------------------------------
\* Cancellation: _ = &mut recv => break

\* the owner sends () on the Sender returned by start(); the oneshot
\* receiver is ready from then on and resolves to Ok(())
Cancel ==
    /\ ~cancelled
    /\ pc # "exited"
    /\ cancelled' = TRUE
    /\ recv_output' = "Ok"
    /\ UNCHANGED <<pc, dirs, idx, stage, copying, result, deleted, node_epoch,
                   failures, pass, last_failure, settled>>
    /\ StoresUnchanged /\ ConfigUnchanged /\ ChildrenUnchanged /\ DetectUnchanged

\* the owner drops the Sender returned by start() without sending: the
\* channel is closed, the oneshot receiver is ready from then on and
\* resolves to Err(RecvError)
DropSender ==
    /\ ~cancelled
    /\ pc # "exited"
    /\ cancelled' = TRUE
    /\ recv_output' = "Err"
    /\ UNCHANGED <<pc, dirs, idx, stage, copying, result, deleted, node_epoch,
                   failures, pass, last_failure, settled>>
    /\ StoresUnchanged /\ ConfigUnchanged /\ ChildrenUnchanged /\ DetectUnchanged

\* Mutant of RecvPatternMatches: the arm is taken on a sent value only, as
\* with the pattern Ok(_)
RecvPatternOkOnly(output) == output = "Ok"

\* _ = &mut recv: the pattern _ matches whatever the receiver resolves to
RecvPatternMatches(output) == output \in {"Ok", "Err"}

\* Mutant of Exit: the loop also leaves in the middle of an upload pass
ExitMidPass ==
    /\ pc \in {"idle", "uploading"}
    /\ cancelled
    /\ pc' = "exited"
    /\ UNCHANGED <<dirs, idx, stage, copying, result, deleted, node_epoch,
                   failures, pass, last_failure, settled, cancelled, recv_output>>
    /\ StoresUnchanged /\ ConfigUnchanged /\ ChildrenUnchanged /\ DetectUnchanged

\* Mutant of Exit: the recv arm goes round the loop again
RecvIgnored ==
    /\ pc = "idle"
    /\ cancelled
    /\ UNCHANGED vars

\* select! takes the recv arm while the task waits in the loop: break
Exit ==
    /\ pc = "idle"
    /\ cancelled
    /\ RecvPatternMatches(recv_output)
    /\ pc' = "exited"
    /\ UNCHANGED <<dirs, idx, stage, copying, result, deleted, node_epoch,
                   failures, pass, last_failure, settled, cancelled, recv_output>>
    /\ StoresUnchanged /\ ConfigUnchanged /\ ChildrenUnchanged /\ DetectUnchanged

----------------------------------------------------------------------------
Next ==
    \/ \E e \in DOMAIN local : ProduceCheckpoint(e)
    \/ \E e \in DOMAIN local : DropTestMarker(e)
    \/ SyncTick
    \/ SyncTickListFails
    \/ UploadStart
    \/ UploadStartListFails
    \/ PruneAndCompact
    \/ PruneAndCompactFails
    \/ \E f \in Files : CopyFile(f)
    \/ CopyFails
    \/ PutSuccessMarker
    \/ PutSuccessMarkerFails
    \/ PutUploadCompletedMarker
    \/ PutUploadCompletedMarkerFails
    \/ UploadReturns
    \/ GcTick
    \/ GcTickListFails
    \/ GcDelete
    \/ GcDeleteFails
    \/ GcNotReady
    \/ GcMarkerReadFails
    \/ GcReturns
    \/ Interrupted
    \/ Cancel
    \/ Exit

Spec == Init /\ [][Next]_vars

\* Both timers keep ticking (the select! loop takes each ready tick again
\* and again), and a pass that has started runs on; faults are bounded by
\* MaxFailures, so they occur finitely often. select! picks among the ready
\* arms at random, so a ready recv arm is taken after finitely many rounds.
Fairness ==
    /\ SF_vars(SyncTick)
    /\ SF_vars(GcTick)
    /\ WF_vars(UploadStart)
    /\ WF_vars(PruneAndCompact)
    /\ WF_vars(\E f \in Files : CopyFile(f))
    /\ WF_vars(PutSuccessMarker)
    /\ WF_vars(PutUploadCompletedMarker)
    /\ WF_vars(UploadReturns)
    /\ WF_vars(GcDelete \/ GcNotReady)
    /\ WF_vars(GcReturns)
    /\ SF_vars(Exit)

FairSpec == Spec /\ Fairness

\* The handler started on a node that is at its last epoch: one db
\* checkpoint is still produced; used where the order of the task's steps
\* matters and the number of epochs does not.
CancelInit ==
    /\ local = [e \in Epochs |-> NoDir]
    /\ remote = [e \in Epochs |-> NoRemoteDir]
    /\ gc_markers \in {ProdGcMarkers, TestGcMarkers}
    /\ prune_and_compact_before_upload \in BOOLEAN
    /\ pc = "idle"
    /\ missing_epochs = <<>>
    /\ gauge = 0
    /\ dirs = <<>>
    /\ idx = 0
    /\ stage = "none"
    /\ copying = {}
    /\ result = "none"
    /\ deleted = <<>>
    /\ node_epoch = MaxEpoch
    /\ failures = 0
    /\ get_errs = {}
    /\ pass = EmptyPass
    /\ last_failure = NoFailure
    /\ settled = FALSE
    /\ cancelled = FALSE
    /\ recv_output = "none"
    /\ local_children = {}
    /\ remote_children = {}

CancelSpec == CancelInit /\ [][Next]_vars /\ Fairness

\* The handler on stores that hold, next to the epoch directories, at most
\* one other child directory each, of any of the other names.
ReadDirInit ==
    /\ local = [e \in Epochs |-> NoDir]
    /\ remote = [e \in Epochs |-> NoRemoteDir]
    /\ gc_markers \in {ProdGcMarkers, TestGcMarkers}
    /\ prune_and_compact_before_upload \in BOOLEAN
    /\ pc = "idle"
    /\ missing_epochs = <<>>
    /\ gauge = 0
    /\ dirs = <<>>
    /\ idx = 0
    /\ stage = "none"
    /\ copying = {}
    /\ result = "none"
    /\ deleted = <<>>
    /\ node_epoch = MaxEpoch
    /\ failures = 0
    /\ get_errs = {}
    /\ pass = EmptyPass
    /\ last_failure = NoFailure
    /\ settled = FALSE
    /\ cancelled = FALSE
    /\ recv_output = "none"
    /\ local_children \in {{}} \cup {{n} : n \in OtherNames}
    /\ remote_children \in {{}} \cup {{n} : n \in OtherNames}

ReadDirSpec == ReadDirInit /\ [][Next]_vars

\* The handler on a node whose db checkpoints are those of epochs 100 and
\* 200, as in test_range_missing_epochs.
RangeInit ==
    /\ local = [e \in RangeEpochs |-> NoDir]
    /\ remote = [e \in RangeEpochs |-> NoRemoteDir]
    /\ gc_markers \in {ProdGcMarkers, TestGcMarkers}
    /\ prune_and_compact_before_upload \in BOOLEAN
    /\ pc = "idle"
    /\ missing_epochs = <<>>
    /\ gauge = 0
    /\ dirs = <<>>
    /\ idx = 0
    /\ stage = "none"
    /\ copying = {}
    /\ result = "none"
    /\ deleted = <<>>
    /\ node_epoch = 0
    /\ failures = 0
    /\ get_errs = {}
    /\ pass = EmptyPass
    /\ last_failure = NoFailure
    /\ settled = FALSE
    /\ cancelled = FALSE
    /\ recv_output = "none"
    /\ local_children = {}
    /\ remote_children = {}

RangeSpec == RangeInit /\ [][Next]_vars

----------------------------------------------------------------------------
\* Gap detection on its own: find_all_missing_checkpoint_epochs applied to
\* every remote store over 0..MaxRemoteEpoch that uploads of this handler can
\* leave behind: per epoch no directory, a directory with some or all files
\* and no marker, or all files with the marker.

RemoteDirStates ==
    {[files |-> fs, success |-> FALSE] : fs \in SUBSET Files}
        \cup {[files |-> Files, success |-> TRUE]}

FindInit ==
    /\ local = [e \in Epochs |-> NoDir]
    /\ remote \in [0..MaxRemoteEpoch -> RemoteDirStates]
    /\ gc_markers = TestGcMarkers
    /\ prune_and_compact_before_upload = FALSE
    /\ pc = "idle"
    /\ missing_epochs = <<>>
    /\ gauge = 0
    /\ dirs = <<>>
    /\ idx = 0
    /\ stage = "none"
    /\ copying = {}
    /\ result = "none"
    /\ deleted = <<>>
    /\ node_epoch = 0
    /\ failures = 0
    /\ get_errs = {}
    /\ pass = EmptyPass
    /\ last_failure = NoFailure
    /\ settled = FALSE
    /\ cancelled = FALSE
    /\ recv_output = "none"
    /\ local_children = {}
    /\ remote_children = {}

FindNext == SyncTick

FindSpec == FindInit /\ [][FindNext]_vars

----------------------------------------------------------------------------
\* The handler with an operator who removes, between two ticks, the remote
\* completion marker of an epoch that was uploaded and is still on local
\* disk, as test_upload_resumes does to stage an upload that stopped midway.

\* fs::remove_file(remote_epoch0_checkpoint.join(SUCCESS_MARKER))
RemoveSuccessMarker(e) ==
    /\ pc = "idle"
    /\ remote[e].success
    /\ local[e].exists
    /\ UPLOAD_COMPLETED_MARKER \in local[e].markers
    /\ CanFail
    /\ failures' = failures + 1
    /\ remote' = [remote EXCEPT ![e].success = FALSE]
    /\ last_failure' = [last_failure EXCEPT !.removed = @ \cup {e}]
    /\ UNCHANGED <<local, pc, dirs, idx, stage, copying, result, deleted,
                   node_epoch, pass>>
    /\ ConfigUnchanged /\ ChildrenUnchanged /\ DetectUnchanged
    /\ settled' = FALSE
    /\ UNCHANGED <<cancelled, recv_output>>

ResumeNext ==
    \/ Next
    \/ \E e \in DOMAIN local : RemoveSuccessMarker(e)

ResumeSpec == Init /\ [][ResumeNext]_vars

\* The handler whose owner may also drop the sender instead of sending on it.
DropNext ==
    \/ Next
    \/ DropSender

DropSpec == CancelInit /\ [][DropNext]_vars /\ Fairness

----------------------------------------------------------------------------
\* Properties

StrictlyAscending(s) == \A j, k \in 1..Len(s) : j < k => s[j] < s[k]

\* the highest epoch with a remote directory
MaxRemote == CHOOSE m \in RemoteIndex : \A e \in RemoteIndex : e <= m

\* the epochs up to the highest remote one that are a gap or incomplete
GapOrIncomplete ==
    IF RemoteIndex = {} THEN {}
    ELSE {e \in 0..MaxRemote : e \notin RemoteIndex \/ ~remote[e].success}

Sentinel == IF RemoteIndex = {} THEN 0 ELSE MaxRemote + 1

\* test_range_missing_epochs: remote {100, 200}, both with their marker
RangeExample ==
    FindAllMissingCheckpointEpochs({100, 200}, [e \in {100, 200} |-> "Ok"])
        = [k \in 1..200 |-> IF k <= 100 THEN k - 1 ELSE IF k <= 199 THEN k ELSE 201]

\* C2: when every marker read returns found or not-found, the detection
\* returns, in ascending order, exactly the epochs up to the highest remote
\* one that have no remote directory or no completion marker, followed by the
\* sentinel (highest remote epoch + 1); <<0>> for an empty remote store; the
\* first element is the smallest such epoch; remote {100, 200} both synced
\* gives 0..99, 101..199, 201.
C2_ExactMissingList ==
    /\ RangeExample
    /\ (pc = "detected" /\ get_errs = {}) =>
          /\ Len(missing_epochs) = Cardinality(GapOrIncomplete) + 1
          /\ StrictlyAscending(missing_epochs)
          /\ Last(missing_epochs) = Sentinel
          /\ {missing_epochs[k] : k \in 1..(Len(missing_epochs) - 1)} = GapOrIncomplete
          /\ (RemoteIndex = {} => missing_epochs = <<0>>)
          /\ (GapOrIncomplete # {} =>
                \A e \in GapOrIncomplete : missing_epochs[1] <= e)

\* a detection without read errors over a remote store with a gap, an
\* incomplete epoch above it and a synced epoch
C2_Witness ==
    /\ pc = "detected" /\ get_errs = {}
    /\ \E g, i, c \in RemoteIndex \cup GapOrIncomplete :
          /\ g < i
          /\ g \notin RemoteIndex
          /\ i \in RemoteIndex /\ ~remote[i].success
          /\ remote[c].success
          /\ Contains(missing_epochs, g) /\ Contains(missing_epochs, i)

\* the epochs reported when the epochs whose read failed count as synced
GapOrIncompleteBut(errs) ==
    IF RemoteIndex = {} THEN {}
    ELSE {e \in 0..MaxRemote :
            e \notin RemoteIndex \/ (~remote[e].success /\ e \notin errs)}

\* C10: a remote epoch whose marker read fails with an error other than
\* not-found is not put in the missing list, the detection still returns its
\* list, and the counter advances past the epoch: the later gaps and
\* incomplete epochs and the sentinel are those reported if that epoch were
\* synced; an existing remote epoch is in the list only on not-found.
C10_ReadErrorTreatedAsSynced ==
    pc = "detected" =>
        /\ \A e \in get_errs : ~Contains(missing_epochs, e)
        /\ {missing_epochs[k] : k \in 1..(Len(missing_epochs) - 1)}
              = GapOrIncompleteBut(get_errs)
        /\ Len(missing_epochs) = Cardinality(GapOrIncompleteBut(get_errs)) + 1
        /\ Last(missing_epochs) = Sentinel
        /\ StrictlyAscending(missing_epochs)
        /\ \A e \in RemoteIndex :
              Contains(missing_epochs, e) <=> (e \notin get_errs /\ ~remote[e].success)

\* a detection in which the read of an incomplete epoch failed, with a gap
\* and an incomplete epoch above it, both reported
C10_Witness ==
    /\ pc = "detected"
    /\ \E e \in get_errs : \E g, i \in 0..MaxRemote :
          /\ ~remote[e].success
          /\ e < g /\ e < i
          /\ g \notin RemoteIndex /\ Contains(missing_epochs, g)
          /\ i \in RemoteIndex /\ Contains(missing_epochs, i)

\* C1: in every run of sync cycles and gc passes, the garbage collector
\* deletes a local epoch directory only if the remote store holds the
\* completion marker of that epoch at the moment of the deletion.
C1_DeletesOnlyArchived ==
    [][\A e \in Epochs :
          (local[e].exists /\ ~local'[e].exists) => remote[e].success]_vars

\* the epochs of the pass whose loop body has ended
Processed == {dirs[k] : k \in 1..(idx - 1)}

InUploadPass == pc \in {"uploading", "upload_returned"}

\* the epoch is in the missing list or at or above its last element
InListOrBeyond(e) ==
    \/ \E k \in 1..Len(missing_epochs) : missing_epochs[k] = e
    \/ e >= missing_epochs[Len(missing_epochs)]

\* C3: in an upload pass, with boundary the last element of the missing list,
\* an epoch of the local index that the pass has processed was copied and got
\* its remote completion marker written if and only if it is in the list or
\* >= boundary; nothing is pruned, copied or marked for an epoch below the
\* boundary that is not in the list, nor for an epoch outside the index; a
\* pass that returns Ok has processed every epoch of the index.
C3_CopiedIffSelected ==
    InUploadPass =>
        /\ \A e \in Processed :
              (e \in pass.copied /\ e \in pass.put_success) <=> InListOrBeyond(e)
        /\ \A e \in Processed :
              InListOrBeyond(e) => remote[e].files = Files /\ remote[e].success
        /\ \A e \in pass.pruned \cup pass.copied \cup pass.put_success :
              InListOrBeyond(e) /\ Contains(dirs, e)
        /\ (pc = "uploading" /\ stage \in {"prune", "copy", "put_success"})
              => InListOrBeyond(dirs[idx])
        /\ (pc = "upload_returned" /\ result = "ok") => Processed = Elems(dirs)

\* a pass that returned Ok after it copied an epoch of the list below the
\* boundary and skipped the copy of another local epoch
C3_Witness ==
    /\ pc = "upload_returned" /\ result = "ok"
    /\ \E a, b \in Elems(dirs) :
          /\ a \in pass.copied /\ a \in pass.put_success
          /\ Contains(missing_epochs, a) /\ a < Last(missing_epochs)
          /\ b \notin pass.copied /\ ~InListOrBeyond(b)

\* C4: the remote completion marker of an epoch is written only after the
\* copy of every file of that epoch completed in the same pass and, when
\* pruning is enabled, after the epoch was pruned before its copy began; a
\* remote completion marker implies the whole directory is in the remote
\* store, in every reachable state, also after an interrupted pass.
C4_MarkerAfterFullCopy ==
    /\ \A e \in pass.put_success : e \in pass.copied
    /\ prune_and_compact_before_upload =>
          /\ pass.copied \subseteq pass.pruned
          /\ (pc = "uploading" /\ stage \in {"copy", "put_success"})
                => dirs[idx] \in pass.pruned
    /\ (pc = "uploading" /\ stage = "put_success")
          => dirs[idx] \in pass.copied /\ remote[dirs[idx]].files = Files
    /\ \A e \in DOMAIN remote : remote[e].success => remote[e].files = Files

\* pruning enabled: the marker of one epoch was written in this pass after
\* its copy, and the pass stopped between the copy of another epoch and its
\* marker write
C4_Witness ==
    /\ prune_and_compact_before_upload
    /\ pc = "upload_returned" /\ result = "err"
    /\ \E e, g \in Epochs :
          /\ e \in pass.put_success /\ remote[e].success
          /\ g \in pass.copied /\ g \notin pass.put_success
          /\ remote[g].files = Files /\ ~remote[g].success

\* C5: after an upload pass that returns Ok every epoch of the local index
\* has _UPLOAD_COMPLETED, selected for copy or not; the local marker of a
\* selected epoch is written only after its remote completion marker.
C5_LocalMarkerForAll ==
    /\ (pc = "upload_returned" /\ result = "ok") =>
          \A e \in Elems(dirs) :
              /\ e \in pass.put_upload_completed
              /\ local[e].exists
              /\ UPLOAD_COMPLETED_MARKER \in local[e].markers
    /\ InUploadPass =>
          \A e \in pass.put_upload_completed :
              InListOrBeyond(e) => e \in pass.put_success /\ remote[e].success

\* a pass returned Ok after it wrote the local marker of an epoch it copied
\* and of an epoch it did not copy
C5_Witness ==
    /\ pc = "upload_returned" /\ result = "ok"
    /\ \E a, b \in Elems(dirs) :
          /\ a \in pass.copied /\ a \in pass.put_upload_completed
          /\ b \notin pass.copied /\ b \in pass.put_upload_completed
          /\ UPLOAD_COMPLETED_MARKER \in local[b].markers

\* a step of the gc pass on its current directory
GcStepTaken ==
    /\ pc = "gc"
    /\ \/ pc' = "gc" /\ idx' = idx + 1
       \/ pc' = "gc_returned"

\* C6: in a gc pass the directory of an epoch is removed only when every
\* configured gc marker is in it and was read (the epoch is pushed on
\* `deleted`), and it is removed whenever that is so and the removal itself
\* does not fail; a directory with a configured marker absent or unreadable
\* is left unchanged; no step of the pass changes a sibling directory.
C6_GcDeletesIffAllMarkers ==
    [][GcStepTaken =>
        LET e == dirs[idx]
            reads_ok == deleted' = Append(deleted, e)
        IN /\ (local[e].exists /\ ~local'[e].exists)
                => reads_ok /\ gc_markers \subseteq local[e].markers
           /\ (reads_ok /\ result' # "err") => local'[e] = NoDir
           /\ (gc_markers \subseteq local[e].markers /\ failures' = failures)
                => reads_ok /\ ~local'[e].exists
           /\ ~(gc_markers \subseteq local[e].markers)
                => ~reads_ok /\ local'[e] = local[e]
           /\ ~reads_ok => local'[e] = local[e] /\ deleted' = deleted
           /\ \A g \in Epochs \ {e} : local'[g] = local[g]
           /\ remote' = remote]_vars

\* a pass deleted one directory, left a directory that has _UPLOAD_COMPLETED
\* and lacks _TEST, and that sibling is unchanged
C6_Witness ==
    /\ pc = "gc_returned" /\ result = "ok"
    /\ gc_markers = TestGcMarkers
    /\ \E e, g \in Elems(dirs) :
          /\ Contains(deleted, e) /\ ~local[e].exists
          /\ ~Contains(deleted, g) /\ local[g].exists
          /\ local[g].markers = {UPLOAD_COMPLETED_MARKER}

\* C8: after a sync cycle (detection, then upload) in which no store
\* operation fails, every epoch of the local index has its files and its
\* completion marker in the remote store and _UPLOAD_COMPLETED locally; an
\* epoch whose remote marker was removed after an earlier upload is copied
\* again and a new local epoch above the highest remote one is copied in the
\* same cycle.
C8_CycleSyncsEveryLocalEpoch ==
    (pc = "upload_returned" /\ result = "ok" /\ get_errs = {}) =>
        \A e \in Elems(dirs) :
            /\ remote[e].files = Files
            /\ remote[e].success
            /\ UPLOAD_COMPLETED_MARKER \in local[e].markers
            /\ (~Contains(missing_epochs, e) /\ e < Last(missing_epochs))
                 \/ (e \in pass.copied /\ e \in pass.put_success)

\* the cycle copied again an epoch whose remote marker had been removed
\* after its upload, and copied a new epoch above the highest remote one
C8_Witness ==
    /\ pc = "upload_returned" /\ result = "ok" /\ get_errs = {}
    /\ \E a, b \in Elems(dirs) :
          /\ a < b
          /\ a \in last_failure.removed
          /\ Contains(missing_epochs, a) /\ a < Last(missing_epochs)
          /\ a \in pass.copied /\ remote[a].success
          /\ b >= Last(missing_epochs)
          /\ b \in pass.copied /\ remote[b].success

\* the last upload pass ended on a failed prune/compact or copy
PruneOrCopyFailed == last_failure.stage \in {"prune", "copy"}

\* C9: when pruning/compaction or the copy fails for a selected epoch e the
\* pass returns an error, no remote completion marker and no local
\* upload-completed marker is written for e in that pass, no local epoch
\* greater than e is processed, the remote markers written for lower epochs
\* in that pass remain; in the next sync cycle e and every greater local
\* epoch that was selected in the failed pass is selected again.
C9_FailedEpochRetried ==
    /\ (pc = "upload_returned" /\ PruneOrCopyFailed) =>
          LET e == last_failure.epoch
          IN /\ result = "err"
             /\ e \notin pass.put_success
             /\ e \notin pass.put_upload_completed
             /\ \A g \in pass.pruned \cup pass.copied \cup pass.put_success
                          \cup pass.put_upload_completed : g <= e
             /\ \A l \in pass.put_success : l < e /\ remote[l].success
    /\ (pc = "detected" /\ PruneOrCopyFailed) =>
          \A g \in last_failure.retry :
              local[g].exists => InListOrBeyond(g)

\* C9, the part that holds: what a pass that fails in prune/compact or copy
\* has and has not written when it returns.
C9_FailedPassLeaves ==
    (pc = "upload_returned" /\ PruneOrCopyFailed) =>
        LET e == last_failure.epoch
        IN /\ result = "err"
           /\ e \notin pass.put_success
           /\ e \notin pass.put_upload_completed
           /\ \A g \in pass.pruned \cup pass.copied \cup pass.put_success
                        \cup pass.put_upload_completed : g <= e
           /\ \A l \in pass.put_success : l < e /\ remote[l].success

\* C9, the retry when no marker read of the next detection fails
C9_RetriedUnlessReadFails ==
    (pc = "detected" /\ PruneOrCopyFailed /\ get_errs = {}) =>
        \A g \in last_failure.retry : local[g].exists => InListOrBeyond(g)

\* C7: when sync ticks and gc ticks keep occurring (the task is not
\* cancelled) and store operations fail only finitely often, every epoch that
\* at some point has a local directory eventually has its remote completion
\* marker.
C7_NoPermanentHole ==
    \A e \in Epochs : [](local[e].exists => <>(remote[e].success \/ cancelled))

\* C11: for every remote index and every outcome of the marker reads (found,
\* not-found, other error) the list a successful detection returns is
\* non-empty, strictly ascending (so without duplicates), and ends with the
\* sentinel: one past the highest epoch with a remote directory, 0 when the
\* remote store has no epoch directory.
C11_NonEmptyAscendingSentinel ==
    pc = "detected" =>
        /\ Len(missing_epochs) >= 1
        /\ \A k \in 1..(Len(missing_epochs) - 1) :
              missing_epochs[k] < missing_epochs[k + 1]
        /\ Cardinality(Elems(missing_epochs)) = Len(missing_epochs)
        /\ missing_epochs[Len(missing_epochs)]
              = (IF RemoteIndex = {} THEN 0
                 ELSE 1 + CHOOSE m \in RemoteIndex : \A e \in RemoteIndex : e <= m)

\* a detection whose reads returned found, not-found and another error, over
\* a remote store that also has a gap
C11_Witness ==
    /\ pc = "detected"
    /\ Len(missing_epochs) >= 3
    /\ \E a, b, c \in RemoteIndex, g \in 0..MaxRemote :
          /\ remote[a].success /\ a \notin get_errs
          /\ ~remote[b].success /\ b \notin get_errs
          /\ c \in get_errs
          /\ g \notin RemoteIndex

\* C12: a sync cycle (detection, then upload) run after a sync cycle that
\* completed without failure, with no db checkpoint produced and no remote
\* object removed in between and no store failure, writes nothing to the
\* remote store: it prunes nothing, copies nothing and puts no completion
\* marker, so the files, their contents and the markers of the remote store
\* after the second run are those after the first run.
C12_SecondCycleWritesNothing ==
    [][(settled /\ settled') =>
          /\ remote' = remote
          /\ stage' \notin {"prune", "copy", "put_success"}
          /\ pass'.pruned = {} /\ pass'.copied = {} /\ pass'.put_success = {}]_vars

\* the second cycle has returned Ok over a local index of two epochs that
\* the earlier cycle left synced
C12_Witness ==
    /\ settled
    /\ pc = "upload_returned" /\ result = "ok"
    /\ Len(dirs) = 2
    /\ \A e \in Elems(dirs) : remote[e].success /\ e \in pass.put_upload_completed

\* a removal of the gc pass failed on dirs[idx]
GcRemovalFailed == pc = "gc_returned" /\ result = "err" /\ idx >= 1

\* C13: when removing an epoch directory fails in a gc pass, the pass ends
\* with an error at that step; no other epoch directory is changed by that
\* step nor afterwards in the pass: every epoch later in the pass order keeps
\* its directory, also one with every marker present, and the epochs deleted
\* earlier in the pass stay deleted; the failed directory is still in the
\* local index, and the next gc pass starts again from the whole index.
C13_FailedRemovalEndsPass ==
    [][/\ (pc = "gc" /\ failures' > failures
             /\ deleted' = Append(deleted, dirs[idx]))
          => /\ pc' = "gc_returned" /\ result' = "err"
             /\ \A g \in Epochs \ {dirs[idx]} : local'[g] = local[g]
       /\ GcRemovalFailed
          => /\ pc' # pc => (local' = local /\ pc' = "idle")
             /\ dirs[idx] \in LocalIndex
             /\ Last(deleted) = dirs[idx]
             /\ \A k \in (idx + 1)..Len(dirs) : local[dirs[k]].exists
             /\ \A k \in 1..(idx - 1) :
                   Contains(deleted, dirs[k]) => ~local[dirs[k]].exists
       /\ (pc = "idle" /\ pc' \in {"gc", "gc_returned"} /\ result' # "err")
          => /\ dirs' = SortedSeq(LocalIndex)
             /\ idx' = 1
             /\ deleted' = <<>>]_vars

\* the removal of a directory failed and the pass ended with the directory
\* after it, which has every configured marker, left alone
C13_Witness ==
    /\ GcRemovalFailed
    /\ idx < Len(dirs)
    /\ Last(deleted) = dirs[idx]
    /\ local[dirs[idx]].exists
    /\ local[dirs[Len(dirs)]].exists
    /\ gc_markers \subseteq local[dirs[Len(dirs)]].markers

\* a step in which a store operation fails
FailingStep == failures' > failures

\* an upload pass or a gc pass has returned Err
FailedTick == pc \in {"upload_returned", "gc_returned"} /\ result = "err"

\* a gc pass is running or has returned Ok
GcRan == pc = "gc" \/ (pc = "gc_returned" /\ result = "ok")

\* C14: no failure of gap detection, upload or garbage collection ends the
\* background task: a failing step never leaves the loop and a pass that has
\* returned (Ok or Err) is followed by the wait in select!; after a failed
\* tick, unless cancellation comes, a later sync tick runs detection again
\* and a later gc tick runs garbage collection again; a sync tick computes
\* the missing list anew from the remote store and its upload pass reads the
\* local index anew, a gc tick reads the local index anew; the loop is left
\* only once cancellation is observed.
C14_FailuresNotFatal ==
    /\ FailedTick ~> (pc = "detected" \/ cancelled)
    /\ FailedTick ~> (GcRan \/ cancelled)
    /\ [][/\ FailingStep => pc' \notin {"exited"}
          /\ pc' = "exited" => cancelled
          /\ (pc \in {"upload_returned", "gc_returned"} /\ pc' # pc)
                => pc' = "idle"
          /\ (pc = "idle" /\ pc' = "detected")
                => /\ pass' = EmptyPass
                   /\ missing_epochs' = FindAllMissingCheckpointEpochs(
                          RemoteIndex, [e \in RemoteIndex |-> GetResult(e, get_errs')])
          /\ (pc = "detected" /\ pc' \in {"uploading", "upload_returned"}
                /\ ~FailingStep)
                => dirs' = SortedSeq(LocalIndex) /\ idx' = 1
          /\ (pc = "idle" /\ pc' \in {"gc", "gc_returned"} /\ ~FailingStep)
                => dirs' = SortedSeq(LocalIndex) /\ idx' = 1 /\ deleted' = <<>>
         ]_vars

\* after an upload pass that returned Err on an epoch still on local disk,
\* the next sync tick has run detection again
C14_Witness ==
    /\ pc = "detected"
    /\ last_failure.stage # "none"
    /\ last_failure.epoch \in LocalIndex
    /\ failures >= 1
    /\ ~cancelled

\* C15: once the cancellation signal is sent the task eventually leaves its
\* loop; after it has left nothing changes any more: no sync cycle and no gc
\* pass runs; while the task waits in the loop with the signal sent, leaving
\* is possible at once, whatever the ticks do.
C15_CancelledTaskExits ==
    /\ cancelled ~> (pc = "exited")
    /\ [][pc # "exited"]_vars
    /\ []((pc = "idle" /\ cancelled) => ENABLED Exit)

\* the task has exited after cancellation with a local epoch that no sync
\* cycle has uploaded
C15_Witness ==
    /\ pc = "exited" /\ cancelled
    /\ \E e \in Epochs : local[e].exists /\ remote[e].files = {}

\* C16: cancellation is observed only between ticks: the task leaves the
\* loop only from the wait in select!, never in the middle of a prune, a
\* copy, a marker write or a directory delete, and a pass that is running
\* when the signal arrives goes on step by step to its own return.
C16_ExitOnlyBetweenTicks ==
    [][/\ pc' = "exited"
             => /\ pc = "idle"
                /\ stage = "none" /\ copying = {} /\ dirs = <<>> /\ idx = 0
       /\ (cancelled /\ pc \in {"detected", "uploading"})
             => pc' \in {pc, "uploading", "upload_returned"}
       /\ (cancelled /\ pc = "gc") => pc' \in {"gc", "gc_returned"}
       /\ (cancelled /\ pc \in {"upload_returned", "gc_returned"})
             => pc' = "idle"]_vars

\* the signal has arrived and the upload pass, past the copy of an epoch,
\* is about to write its remote completion marker
C16_Witness ==
    /\ cancelled
    /\ pc = "uploading" /\ stage = "put_success"
    /\ dirs[idx] \in pass.copied

\* a child whose name starts with epoch_ and whose suffix is no u32
MalformedChild(children) ==
    \E n \in children :
        StartsWith(n, EpochPrefix) /\ ~ParseU32(AfterFirstUnderscore(n)).ok

\* there are other children and none of their names starts with epoch_
IgnoredOnly(children) ==
    children # {} /\ \A n \in children : ~StartsWith(n, EpochPrefix)

\* suffixes that parse as u32 and suffixes that do not
ParseExamples ==
    /\ ~ParseU32(<<>>).ok
    /\ ~ParseU32(<<"x">>).ok
    /\ ~ParseU32(<<"-", "1">>).ok
    /\ ~ParseU32(<<"1", "_", "2">>).ok
    /\ ~ParseU32(<<"+">>).ok
    /\ ~ParseU32(<<"4", "2", "9", "4", "9", "6", "7", "2", "9", "6">>).ok
    /\ ~ParseU32(<<"1", "0", "0", "0", "0", "0", "0", "0", "0", "0", "0">>).ok
    /\ ParseU32(<<"+", "7">>) = [ok |-> TRUE, value |-> 7]
    /\ ParseU32(<<"0", "1", "0">>) = [ok |-> TRUE, value |-> 10]
    /\ ParseU32(<<"2", "1", "4", "7", "4", "8", "3", "6", "4", "7">>).ok
    /\ \A e \in AllEpochs : ParseChild(EpochDirName(e))
                                = [skip |-> FALSE, ok |-> TRUE, value |-> e]

\* C17: a child directory whose name starts with epoch_ and whose suffix
\* does not parse as u32 makes read_checkpoint_dir fail and the operation
\* around it end without side effect: in the remote store no detection
\* succeeds, so no upload runs, the gauge and the remote store stay as they
\* are; in the local store the upload pass returns Err before it copies or
\* marks anything and the gc pass returns Err with nothing deleted. Children
\* whose names do not start with epoch_ are passed over: detection and the
\* passes see the epoch directories only.
C17_MalformedDirAborts ==
    [][/\ ParseExamples
       /\ MalformedChild(remote_children)
            => /\ pc' \notin {"detected", "uploading", "upload_returned"}
               /\ remote' = remote /\ gauge' = gauge
               /\ missing_epochs' = missing_epochs
               /\ \A e \in Epochs :
                     UPLOAD_COMPLETED_MARKER \in local'[e].markers
                        => UPLOAD_COMPLETED_MARKER \in local[e].markers
       /\ MalformedChild(local_children)
            => /\ pc' \notin {"uploading", "gc"}
               /\ pc' = "upload_returned" => result' = "err" /\ pass' = EmptyPass
               /\ pc' = "gc_returned" => result' = "err" /\ deleted' = <<>>
               /\ remote' = remote
               /\ \A e \in Epochs :
                     /\ local[e].exists => local'[e].exists
                     /\ UPLOAD_COMPLETED_MARKER \in local'[e].markers
                           => UPLOAD_COMPLETED_MARKER \in local[e].markers
       /\ (IgnoredOnly(remote_children) /\ pc = "idle" /\ pc' = "detected")
            => missing_epochs' = FindAllMissingCheckpointEpochs(
                  RemoteIndex, [e \in RemoteIndex |-> GetResult(e, get_errs')])
       /\ (IgnoredOnly(local_children) /\ failures' = failures
             /\ \/ pc = "detected" /\ pc' \in {"uploading", "upload_returned"}
                \/ pc = "idle" /\ pc' \in {"gc", "gc_returned"})
            => dirs' = SortedSeq(LocalIndex)]_vars

\* the remote store holds a child that is passed over and the local store a
\* malformed epoch_ child: detection succeeded and the upload pass returned
\* Err with the local epoch neither copied nor marked, no store call failing
C17_Witness ==
    /\ MalformedChild(local_children)
    /\ IgnoredOnly(remote_children)
    /\ pc = "upload_returned" /\ result = "err"
    /\ failures = 0
    /\ \E e \in Epochs :
          local[e].exists /\ local[e].markers = {} /\ remote[e].files = {}

\* a detection without read error over the remote epoch directories 0, 1, 3
Detected013 == pc = "detected" /\ get_errs = {} /\ RemoteIndex = {0, 1, 3}

\* C18 as stated: with remote epochs {0,1,3} all holding their completion
\* marker the first missing epoch reported is 2; with the marker of epoch 3
\* deleted the first missing epoch reported is 0.
C18_FirstMissingAfterMarker3Deleted ==
    Detected013 =>
        /\ (remote[0].success /\ remote[1].success /\ remote[3].success)
              => missing_epochs[1] = 2
        /\ (remote[0].success /\ remote[1].success /\ ~remote[3].success)
              => missing_epochs[1] = 0

\* C18, amended: with remote epochs {0,1,3} all holding their completion
\* marker the first missing epoch reported (and the gauge) is 2; with the
\* marker of epoch 0 deleted it is 0: an incomplete epoch below the gap
\* comes first; with the marker of epoch 3 deleted instead it stays 2, the
\* list being 2, 3, 4.
C18_FirstMissingAfterMarker0Deleted ==
    Detected013 =>
        /\ (remote[0].success /\ remote[1].success /\ remote[3].success)
              => missing_epochs = <<2, 4>> /\ gauge = 2
        /\ (~remote[0].success /\ remote[1].success /\ remote[3].success)
              => missing_epochs = <<0, 2, 4>> /\ gauge = 0
        /\ (remote[0].success /\ remote[1].success /\ ~remote[3].success)
              => missing_epochs = <<2, 3, 4>> /\ gauge = 2

\* remote epochs 1 and 3 hold their marker, epoch 0 has lost it, and the
\* detection reports 0 first
C18_Witness ==
    /\ Detected013
    /\ ~remote[0].success /\ remote[1].success /\ remote[3].success
    /\ missing_epochs[1] = 0

\* a sync cycle over local epochs 100 and 200 whose detection found the
\* remote store empty has returned Ok
RangeCycleDone ==
    /\ pc = "upload_returned" /\ result = "ok"
    /\ get_errs = {}
    /\ missing_epochs = <<0>>
    /\ dirs = <<100, 200>>

\* C19 as stated: given local epochs {100,200} and an empty remote store,
\* one sync cycle uploads only epoch 100: after it epoch 100 is in the
\* remote store with its completion marker and epoch 200 is not copied.
C19_UploadsOnlyEpoch100 ==
    RangeCycleDone =>
        /\ remote[100].files = Files /\ remote[100].success
        /\ remote[200].files = {} /\ ~remote[200].success
        /\ 200 \notin pass.copied

\* C19, amended: given local epochs {100,200} and an empty remote store,
\* the detection returns [0] and one sync cycle uploads both epochs: after
\* it epochs 100 and 200 are both in the remote store with their completion
\* markers, and both have _UPLOAD_COMPLETED locally.
C19_UploadsBothEpochs ==
    RangeCycleDone =>
        /\ pass.copied = {100, 200}
        /\ \A e \in {100, 200} :
              /\ remote[e].files = Files /\ remote[e].success
              /\ UPLOAD_COMPLETED_MARKER \in local[e].markers

\* the cycle has returned with epoch 200 copied and marked remotely
C19_Witness ==
    /\ RangeCycleDone
    /\ 200 \in pass.copied /\ 200 \in pass.put_success
    /\ remote[200].success

\* C20 as stated: on every sync tick whose gap detection succeeds the gauge
\* first_missing_db_checkpoint_epoch is set, before the upload runs, to the
\* first missing epoch, or to 0 if no epoch is pending (every remote epoch
\* from 0 up to the highest one has a directory with its completion marker).
\* (An epoch counts as pending when the detection reports it.)
C20_GaugeFirstMissingOrZero ==
    pc = "detected" =>
        gauge = IF GapOrIncompleteBut(get_errs) = {} THEN 0
                ELSE MinOf(GapOrIncompleteBut(get_errs))

\* C20, amended: on every sync tick whose gap detection succeeds the gauge
\* is set, before the upload runs, to the first element of the returned
\* list: the lowest epoch up to the highest remote one that has no
\* directory or whose marker read returned not-found, and when there is no
\* such epoch the highest remote epoch + 1 (0 only for an empty remote
\* store); the upload and the garbage collection leave the gauge alone.
C20_GaugeIsFirstOfList ==
    /\ [](pc = "detected" =>
            /\ Len(missing_epochs) >= 1
            /\ gauge = missing_epochs[1]
            /\ gauge = IF GapOrIncompleteBut(get_errs) = {} THEN Sentinel
                       ELSE MinOf(GapOrIncompleteBut(get_errs)))
    /\ [][(pc = "idle" /\ pc' = "detected") => gauge' = missing_epochs'[1]]_vars
    /\ [][pc # "idle" => gauge' = gauge]_vars

\* a detection without read errors over a remote store whose epochs, from 0
\* to the highest, are all complete: the gauge is the next epoch, not 0
C20_Witness ==
    /\ pc = "detected" /\ get_errs = {}
    /\ RemoteIndex # {} /\ GapOrIncomplete = {}
    /\ gauge = MaxRemote + 1

\* the body of the sync tick (detection plus upload) is running
InSyncBody == pc \in {"detected", "uploading", "upload_returned"}

\* the body of the gc tick is running
InGcBody == pc \in {"gc", "gc_returned"}

\* C21: a sync cycle and a gc pass never run concurrently: the body of a
\* tick starts only while the task waits in the loop and runs until it is
\* back there before the body of the other tick can start; a local directory
\* is removed only by a step of a gc pass, never while an upload pass is in
\* progress, and every directory of the index read by an upload pass is
\* still there during that pass.
C21_TickBodiesNeverOverlap ==
    /\ [](pc = "uploading" => \A e \in Elems(dirs) : local[e].exists)
    /\ [][/\ (InGcBody' /\ ~InGcBody) => pc = "idle"
          /\ (InSyncBody' /\ ~InSyncBody) => pc = "idle"
          /\ InSyncBody => (InSyncBody' \/ pc' = "idle")
          /\ InGcBody => (InGcBody' \/ pc' = "idle")
          /\ (\E e \in DOMAIN local : local[e].exists /\ ~local'[e].exists)
                => (pc = "gc" /\ InGcBody')
          /\ InSyncBody =>
                \A e \in DOMAIN local : local[e].exists => local'[e].exists]_vars

\* an upload pass is at work on a later directory while an earlier one of
\* its index has every marker the garbage collector waits for
C21_Witness ==
    /\ pc = "uploading" /\ idx >= 2
    /\ stage \in {"copy", "put_success"}
    /\ \E k \in 1..(idx - 1) :
          /\ local[dirs[k]].exists
          /\ AllMarkersPresent(gc_markers, dirs[k])

\* nothing of the remote store is lost in the step
RemoteOnlyGrows ==
    \A e \in DOMAIN remote :
        /\ remote[e].files \subseteq remote'[e].files
        /\ remote[e].success => remote'[e].success

\* a local epoch directory is removed in the step
LocalDirRemoved == \E e \in DOMAIN local : local[e].exists /\ ~local'[e].exists

\* C22: no operation of the handler deletes anything from the remote store:
\* the gap detection changes neither store, the uploader only adds remote
\* objects (or writes them again), the garbage collector changes only the
\* local store; so with the handler as the only writer an epoch that has
\* its remote completion marker keeps it in every later state, and a local
\* epoch directory is removed only by a step of the garbage collector.
C22_RemoteNeverShrinks ==
    [][/\ RemoteOnlyGrows
       /\ (pc = "idle" /\ pc' = "detected") => (remote' = remote /\ local' = local)
       /\ remote' # remote => (pc = "uploading" /\ stage \in {"copy", "put_success"})
       /\ InGcBody => remote' = remote
       /\ InGcBody' => remote' = remote
       /\ LocalDirRemoved => (pc = "gc" /\ Last(deleted') = dirs[idx])]_vars

\* a gc pass has removed the local directory of an epoch whose remote
\* completion marker is still there
C22_Witness ==
    /\ pc = "gc_returned" /\ result = "ok"
    /\ \E k \in 1..Len(deleted) :
          /\ ~local[deleted[k]].exists
          /\ remote[deleted[k]].success
          /\ remote[deleted[k]].files = Files

\* the entries of the pass order before the k-th
DirsBefore(k) == {dirs[j] : j \in 1..(k - 1)}

\* the loop body has reached the copy of dirs[idx], or is past it
CopyReached ==
    /\ pc = "uploading"
    /\ stage \in {"copy", "put_success", "put_upload_completed"}
    /\ Selected(missing_epochs, dirs[idx])

\* C23: within one upload pass the local epochs are processed in strictly
\* ascending order, one at a time: for selected epochs a < b the copy of b
\* does not start before the remote completion marker and the local
\* _UPLOAD_COMPLETED marker of a are written; at every point of the pass the
\* epochs whose local marker this pass has written are the entries before
\* the current one (a prefix of the ascending local index), and the epochs
\* whose remote marker it has written are the selected ones among them
\* (with the current one once its marker is put).
C23_AscendingOneAtATime ==
    /\ [](pc = "uploading" =>
            /\ StrictlyAscending(dirs)
            /\ idx \in 1..Len(dirs)
            /\ pass.put_upload_completed = DirsBefore(idx)
            /\ pass.put_success =
                  {e \in DirsBefore(idx) : Selected(missing_epochs, e)}
                     \cup (IF stage = "put_upload_completed"
                              /\ Selected(missing_epochs, dirs[idx])
                           THEN {dirs[idx]} ELSE {})
            /\ pass.copied \subseteq DirsBefore(idx + 1)
            /\ CopyReached =>
                  \A a \in Elems(dirs) :
                     (a < dirs[idx] /\ Selected(missing_epochs, a)) =>
                        /\ a \in pass.put_success /\ remote[a].success
                        /\ a \in pass.put_upload_completed
                        /\ UPLOAD_COMPLETED_MARKER \in local[a].markers)
    /\ []((pc = "upload_returned" /\ result = "ok") =>
            pass.put_upload_completed = Elems(dirs))
    /\ [][\A b \in DOMAIN remote :
            remote'[b] # remote[b] =>
               /\ pc = "uploading" /\ b = dirs[idx]
               /\ \A a \in Elems(dirs) :
                     a < b => /\ a \in pass.put_upload_completed
                              /\ Selected(missing_epochs, a) =>
                                    (a \in pass.put_success /\ remote[a].success)]_vars

\* the copy of the second selected epoch is under way after both markers of
\* the first selected epoch were written
C23_Witness ==
    /\ pc = "uploading" /\ idx = 2
    /\ stage = "copy" /\ copying # {}
    /\ Selected(missing_epochs, dirs[1]) /\ Selected(missing_epochs, dirs[2])
    /\ dirs[1] \in pass.put_success /\ dirs[1] \in pass.put_upload_completed

\* the sender was dropped without a send
SenderDropped == cancelled /\ recv_output = "Err"

\* C24: dropping the sender returned by start() without sending on it also
\* stops the background task: the recv arm is ready on the closed channel
\* as on a sent signal, so after the drop the task eventually exits, from
\* the waiting state of the loop; once it has exited no sync cycle and no
\* gc pass runs (neither store and no detection result changes any more);
\* and the task does not exit while the owner still holds the sender.
C24_DroppedSenderStopsTask ==
    /\ SenderDropped ~> (pc = "exited")
    /\ []((pc = "idle" /\ SenderDropped) => ENABLED Exit)
    /\ [](~cancelled => pc # "exited")
    /\ [][(pc' = "exited" /\ pc # "exited") => (pc = "idle" /\ cancelled)]_vars
    /\ [][pc = "exited" =>
            /\ pc' = "exited"
            /\ remote' = remote /\ local' = local
            /\ missing_epochs' = missing_epochs /\ gauge' = gauge
            /\ dirs' = dirs /\ deleted' = deleted]_vars

\* the task has exited after its sender was dropped, with a db checkpoint
\* still waiting on local disk for its upload
C24_Witness ==
    /\ pc = "exited" /\ SenderDropped
    /\ \E e \in DOMAIN local : local[e].exists /\ ~remote[e].success

====
